---- MODULE Spec2Model ----
(***************************************************************************)
(* State machine of src/App.tsx: the QR code generator's App component.   *)
(*                                                                         *)
(* The component owns five pieces of React state (urlInput, currentQr,    *)
(* history, isLoading, error), two effects (load at mount, persist on     *)
(* every change of history) and four handlers (generate, select, clear,   *)
(* download).  The encoder (QRCode.toDataURL), the clock (Date), the      *)
(* confirmation dialog and localStorage are the environment.               *)
(*                                                                         *)
(* Strings are sequences of tokens, a token being a record [c, n]:        *)
(*   c = "sp"      one whitespace character                                *)
(*   c = "scheme"  the text "https://"                                     *)
(*   c = "host"    the host name number n                                  *)
(*   c = "word"    a word that is neither of the above                     *)
(* so that trimming and URL parsing are computed, not assumed.             *)
(***************************************************************************)
EXTENDS Integers, Sequences, FiniteSets, TLC

VARIABLES
    urlInput,        \* useState<string>('')                       (line 158)
    currentQr,       \* useState<QrCodeEntry | null>(null): <<>> is null, <<e>> is e
    history,         \* useState<QrCodeEntry[]>([]): a JS value [kind, items]
    isLoading,       \* useState<boolean>(false)                   (line 161)
    error,           \* useState<string | null>(null)              (line 162)
    inflight,        \* the pending QRCode.toDataURL calls, each with the urlInput
                     \* its closure captured                        (line 197)
    storage,         \* localStorage['qrHistory']: absent, inaccessible or a text
    phase,           \* "mount", "mountPersist", "running" or "crashed"
    persistPending,  \* the persist effect is scheduled and has not run yet
    now,             \* the last reading of the clock
    duringEncode,    \* the select and clear events since the pending encode began
    generated,       \* the URLs encoded successfully since the history was last
                     \* cleared (or since the first start)
    persisted,       \* the history value the last successful setItem serialized
    closureHistory,  \* the history of the render whose generate handler is pending
    lastOp           \* the handler, effect or continuation that ran last

vars == <<urlInput, currentQr, history, isLoading, error, inflight, storage,
          phase, persistPending, now, duringEncode, generated, persisted,
          closureHistory, lastOp>>

(***************************************************************************)
(* Program constants and bounds                                            *)
(***************************************************************************)

\* prevHistory....slice(0, 19)
SliceEnd == 19

\* how far the clock may advance within one session
MaxTicks == 1

\* how many encoder calls the model lets be pending at once
MaxInflight == 2

\* how many distinct host names the user of the cold-start scenario may type
NumUrls == 22

SessionStart == SliceEnd + 1
ClockEnd == SessionStart + MaxTicks

(***************************************************************************)
(* Strings                                                                 *)
(***************************************************************************)

Sp == [c |-> "sp", n |-> 0]
Scheme == [c |-> "scheme", n |-> 0]
Word == [c |-> "word", n |-> 0]
Host(i) == [c |-> "host", n |-> i]

EmptyString == << >>
HostUrl(i) == <<Scheme, Host(i)>>

RECURSIVE TrimStart(_)
TrimStart(s) ==
    IF s = << >> THEN << >>
    ELSE IF Head(s) = Sp THEN TrimStart(Tail(s)) ELSE s

RECURSIVE TrimEnd(_)
TrimEnd(s) ==
    IF s = << >> THEN << >>
    ELSE IF s[Len(s)] = Sp THEN TrimEnd(SubSeq(s, 1, Len(s) - 1)) ELSE s

\* String.prototype.trim
Trim(s) == TrimEnd(TrimStart(s))

\* new URL(s) without a base: leading and trailing whitespace is stripped, then
\* an absolute URL needs a scheme and, for https, a non-empty host in which
\* whitespace is a forbidden code point.
UrlParses(s) ==
    LET t == Trim(s) IN
    /\ Len(t) >= 2
    /\ t[1] = Scheme
    /\ \A i \in 2..Len(t) : t[i].c = "host"

\* a validator that accepts every text
isValidUrlAcceptsAll(urlString) == TRUE

\* isValidUrl: true unless new URL(urlString) throws
isValidUrl(urlString) == UrlParses(urlString)

(***************************************************************************)
(* Entries, the encoder and JSON                                           *)
(***************************************************************************)

\* new Date().toISOString(): the text of the clock reading t
toISOString(t) == [iso |-> t]

\* QRCode.toDataURL(text, options) on success: the PNG data URL of text, a
\* function of text alone since the options are fixed
toDataURL(text) == [png |-> text]

\* const newEntry: QrCodeEntry = {id, url, dataUrl, createdAt}; t1 and t2 are
\* the two readings of the clock
NewEntry(url, dataUrl, t1, t2) ==
    [id |-> toISOString(t1), url |-> url, dataUrl |-> dataUrl, createdAt |-> t2]

\* JavaScript values a parsed history can be: an array (with its items), null
\* or a plain object
Arr(items) == [kind |-> "array", items |-> items]
JsNull == [kind |-> "null", items |-> << >>]
JsObject == [kind |-> "object", items |-> << >>]

\* what localStorage.getItem('qrHistory') can find: nothing, a text that is
\* not JSON, or a JSON text; or the storage is inaccessible for the session and
\* both getItem and setItem throw
Absent == [kind |-> "absent", items |-> << >>]
Garbage == [kind |-> "garbage", items |-> << >>]
Inaccessible == [kind |-> "inaccessible", items |-> << >>]

\* the program has not written the key
NothingWritten == [kind |-> "none", items |-> << >>]

\* localStorage.getItem / localStorage.setItem throw
StorageThrows == storage.kind = "inaccessible"

\* the storage after localStorage.setItem('qrHistory', text)
SetItem(text) == IF StorageThrows THEN storage ELSE text

\* JSON.stringify of one entry: three JSON strings and one JSON number
EntryToJson(e) ==
    [id |-> [str |-> e.id], url |-> [str |-> e.url],
     dataUrl |-> [str |-> e.dataUrl], createdAt |-> [num |-> e.createdAt]]

\* JSON.parse of one entry
EntryFromJson(j) ==
    [id |-> j.id.str, url |-> j.url.str,
     dataUrl |-> j.dataUrl.str, createdAt |-> j.createdAt.num]

\* JSON.stringify(history)
Stringify(v) ==
    IF v.kind = "array"
    THEN [kind |-> "array",
          items |-> [i \in 1..Len(v.items) |-> EntryToJson(v.items[i])]]
    ELSE [kind |-> v.kind, items |-> << >>]

\* JSON.parse(storedHistory) throws a SyntaxError
ParseThrows(text) == text.kind = "garbage"

\* variant: a parse that yields the entries in the opposite order
ParseReversed(text) ==
    IF text.kind = "array"
    THEN Arr([i \in 1..Len(text.items) |->
                EntryFromJson(text.items[Len(text.items) + 1 - i])])
    ELSE [kind |-> text.kind, items |-> << >>]

\* JSON.parse(storedHistory) when it does not throw
Parse(text) ==
    IF text.kind = "array"
    THEN Arr([i \in 1..Len(text.items) |-> EntryFromJson(text.items[i])])
    ELSE [kind |-> text.kind, items |-> << >>]

(***************************************************************************)
(* Array operations of the history update                                  *)
(***************************************************************************)

Min(a, b) == IF a < b THEN a ELSE b

\* Array.prototype.filter(item => item.url !== url)
RECURSIVE FilterOutUrl(_, _)
FilterOutUrl(s, url) ==
    IF s = << >> THEN << >>
    ELSE IF Head(s).url # url
         THEN <<Head(s)>> \o FilterOutUrl(Tail(s), url)
         ELSE FilterOutUrl(Tail(s), url)

\* Array.prototype.slice(0, end)
SliceTo(s, end) == SubSeq(s, 1, Min(end, Len(s)))

\* variants of the update with one step of it wrong
InsertEntryNoSlice(prevHistory, newEntry) ==
    <<newEntry>> \o FilterOutUrl(prevHistory, newEntry.url)
InsertEntryNoFilter(prevHistory, newEntry) ==
    <<newEntry>> \o SliceTo(prevHistory, SliceEnd)
InsertEntrySliceFirst(prevHistory, newEntry) ==
    <<newEntry>> \o FilterOutUrl(SliceTo(prevHistory, SliceEnd), newEntry.url)
InsertEntryAppend(prevHistory, newEntry) ==
    SliceTo(FilterOutUrl(prevHistory, newEntry.url), SliceEnd) \o <<newEntry>>

\* variant: at the bound the insert drops the newest old entry instead of the oldest
InsertEntryDropsNewest(prevHistory, newEntry) ==
    LET kept == FilterOutUrl(prevHistory, newEntry.url)
    IN  <<newEntry>> \o (IF Len(kept) > SliceEnd THEN Tail(kept) ELSE kept)

\* prevHistory => [newEntry, ...prevHistory.filter(...).slice(0, 19)]
InsertEntry(prevHistory, newEntry) ==
    <<newEntry>> \o SliceTo(FilterOutUrl(prevHistory, newEntry.url), SliceEnd)

(***************************************************************************)
(* What the environment supplies                                           *)
(***************************************************************************)

\* the entry a session created at time i for host i, and the history a
\* previous session left after generating hosts 1..k in that order
StoredEntry(i) == NewEntry(HostUrl(i), toDataURL(HostUrl(i)), i, i)
StoredHistory(k) == [j \in 1..k |-> StoredEntry(k + 1 - j)]

\* lengths of the histories found at startup: empty, one entry, one below the
\* limit, at the limit
StoredLens == {0, 1, SliceEnd, SliceEnd + 1}

\* contents of the storage key at startup
StorageInputs ==
    {Absent, Inaccessible, Garbage, Stringify(JsNull), Stringify(JsObject)}
    \cup {Stringify(Arr(StoredHistory(k))) : k \in StoredLens}

\* texts the user types: nothing, blanks, words, the oldest stored URL, and a
\* URL no stored history holds, padded with blanks
UrlOld == HostUrl(1)
UrlNew == <<Sp>> \o HostUrl(SliceEnd + 2) \o <<Sp>>
Inputs == {EmptyString, <<Sp, Sp>>, <<Word, Sp, Word>>, UrlOld, UrlNew}

\* texts the user of the cold-start scenario types: the first host again, or
\* the host after the highest one in the history
NextHost(items) ==
    IF items = << >> THEN 1
    ELSE Min(NumUrls, 1 + CHOOSE m \in {items[i].url[2].n : i \in 1..Len(items)} :
                            \A j \in 1..Len(items) : items[j].url[2].n <= m)
ColdInputs == {EmptyString, HostUrl(1), HostUrl(NextHost(history.items))}

\* arrays another writer of the key may have left: up to three entries more than
\* the program keeps, the entries at the positions in dup repeating the two URLs
\* the user types
TamperedHistory(k, dup) ==
    [j \in 1..k |->
        IF j \in dup
        THEN LET url == IF j % 2 = 1 THEN UrlNew ELSE UrlOld
             IN NewEntry(url, toDataURL(url), k + 1 - j, k + 1 - j)
        ELSE StoredEntry(k + 1 - j)]
TamperedLens == {0, 1, SliceEnd, SliceEnd + 1, SliceEnd + 2, SliceEnd + 3}
TamperedDups == SUBSET {1, 2, SliceEnd, SliceEnd + 1, SliceEnd + 2}
TamperedInputs ==
    {Stringify(Arr(TamperedHistory(k, dup \cap 1..k))) :
        k \in TamperedLens, dup \in TamperedDups}

\* the rendered entries the user clicks: the first two and the last
SelectPositions(len) == {1, 2, len} \cap 1..len

(***************************************************************************)
(* Initial state: the first render, before any effect has run              *)
(***************************************************************************)

InitialState ==
    /\ urlInput = EmptyString
    /\ currentQr = << >>
    /\ history = Arr(<< >>)
    /\ isLoading = FALSE
    /\ error = "none"
    /\ inflight = << >>
    /\ phase = "mount"
    /\ persistPending = FALSE
    /\ now = SessionStart
    /\ duringEncode = {}
    /\ generated = {}
    /\ closureHistory = Arr(<< >>)
    /\ lastOp = "render"

\* an array found at startup was written by an earlier session of the program
Init ==
    /\ InitialState
    /\ storage \in StorageInputs
    /\ persisted = IF storage.kind = "array"
                   THEN Arr(StoredHistory(Len(storage.items)))
                   ELSE NothingWritten

(***************************************************************************)
(* Effects                                                                 *)
(***************************************************************************)

\* useEffect(() => {...}, []): the load effect, run once after the first render
LoadEffect ==
    /\ phase = "mount"
    /\ IF StorageThrows \/ storage.kind = "absent" \/ ParseThrows(storage)
       THEN \* getItem threw, returned null, or JSON.parse threw
            UNCHANGED <<history, currentQr, persistPending>>
       ELSE LET parsedHistory == Parse(storage) IN
            /\ history' = parsedHistory
            \* parsedHistory.length: a TypeError on null (caught, after
            \* setHistory), undefined on an object
            /\ currentQr' =
                 IF parsedHistory.kind = "array" /\ Len(parsedHistory.items) > 0
                 THEN <<parsedHistory.items[1]>>
                 ELSE currentQr
            /\ persistPending' = TRUE
    /\ phase' = "mountPersist"
    /\ lastOp' = "load"
    /\ UNCHANGED <<urlInput, isLoading, error, inflight, storage, now, duringEncode,
                   generated, persisted, closureHistory>>

\* the persist effect of the first render (its history is the initial []),
\* followed by the render of the state the load effect set: HistoryList reads
\* history.length and calls history.map, which throws unless history is an array
MountPersist ==
    /\ phase = "mountPersist"
    /\ storage' = SetItem(Stringify(Arr(<< >>)))
    /\ IF history.kind = "array"
       THEN /\ phase' = "running"
            /\ UNCHANGED persistPending
       ELSE /\ phase' = "crashed"
            /\ persistPending' = FALSE
    /\ persisted' = IF StorageThrows THEN persisted ELSE Arr(<< >>)
    /\ lastOp' = "mountPersist"
    /\ UNCHANGED <<urlInput, currentQr, history, isLoading, error, inflight, now,
                   duringEncode, generated, closureHistory>>

\* a persist effect that runs without writing
PersistSkipsWrite ==
    /\ phase = "running"
    /\ persistPending
    /\ persistPending' = FALSE
    /\ lastOp' = "persist"
    /\ UNCHANGED <<urlInput, currentQr, history, isLoading, error, inflight, storage,
                   phase, now, duringEncode, generated, persisted, closureHistory>>

\* useEffect(() => {...}, [history]): the persist effect after a render in
\* which history changed
Persist ==
    /\ phase = "running"
    /\ persistPending
    /\ storage' = SetItem(Stringify(history))
    /\ persisted' = IF StorageThrows THEN persisted ELSE history
    /\ persistPending' = FALSE
    /\ lastOp' = "persist"
    /\ UNCHANGED <<urlInput, currentQr, history, isLoading, error, inflight, phase,
                   now, duringEncode, generated, closureHistory>>

\* React runs a pending passive effect before it renders the next update, and
\* no handler reads the storage: an event is taken once the effect has run
Idle == phase = "running" /\ ~persistPending

(***************************************************************************)
(* Handlers                                                                *)
(***************************************************************************)

\* <input onChange={(e) => setUrlInput(e.target.value)} disabled={isLoading}>
SetUrlInput(value) ==
    /\ Idle
    /\ ~isLoading
    /\ value # urlInput
    /\ urlInput' = value
    /\ duringEncode' = {}
    /\ lastOp' = "type"
    /\ UNCHANGED <<currentQr, history, isLoading, error, inflight, storage, phase,
                   persistPending, now, generated, persisted, closureHistory>>

\* a button that stays enabled while loading
GenerateEnabledWhileLoading == urlInput # EmptyString

\* <button onClick={onGenerate} disabled={isLoading || !urlInput}>
GenerateEnabled == ~isLoading /\ urlInput # EmptyString

\* handleGenerateQrCode up to its await
Generate ==
    /\ Idle
    /\ GenerateEnabled
    /\ Len(inflight) < MaxInflight
    /\ IF Trim(urlInput) = EmptyString \/ ~isValidUrl(urlInput)
       THEN /\ error' = "invalidUrl"
            /\ lastOp' = "generateRejected"
            /\ UNCHANGED <<isLoading, inflight, closureHistory>>
       ELSE /\ isLoading' = TRUE
            /\ error' = "none"
            /\ inflight' = Append(inflight, urlInput)
            /\ closureHistory' = history
            /\ lastOp' = "generateStarted"
    /\ duringEncode' = {}
    /\ UNCHANGED <<urlInput, currentQr, history, storage, phase, persistPending, now,
                   generated, persisted>>

\* a continuation that inserts into the history its closure captured
EncodeSucceedsStaleClosure(t1, t2) ==
    /\ phase = "running" /\ ~persistPending
    /\ inflight # << >>
    /\ LET url == Head(inflight)
           newEntry == NewEntry(url, toDataURL(url), t1, t2)
       IN /\ currentQr' = <<newEntry>>
          /\ history' = Arr(InsertEntry(closureHistory.items, newEntry))
    /\ urlInput' = EmptyString
    /\ isLoading' = FALSE
    /\ inflight' = Tail(inflight)
    /\ persistPending' = TRUE
    /\ now' = t2
    /\ lastOp' = "encodeOk"
    /\ generated' = generated \cup {Head(inflight)}
    /\ closureHistory' = Arr(<< >>)
    /\ UNCHANGED <<error, storage, phase, duringEncode, persisted>>

\* handleGenerateQrCode after its await, the encoder having returned; t1 and t2
\* are the clock readings of new Date() and Date.now()
EncodeSucceeds(t1, t2) ==
    /\ Idle
    /\ inflight # << >>
    /\ LET url == Head(inflight)
           newEntry == NewEntry(url, toDataURL(url), t1, t2)
       IN /\ currentQr' = <<newEntry>>
          /\ history' = Arr(InsertEntry(history.items, newEntry))
    /\ urlInput' = EmptyString
    /\ isLoading' = FALSE
    /\ inflight' = Tail(inflight)
    /\ persistPending' = TRUE
    /\ now' = t2
    /\ lastOp' = "encodeOk"
    /\ generated' = generated \cup {Head(inflight)}
    /\ closureHistory' = Arr(<< >>)
    /\ UNCHANGED <<error, storage, phase, duringEncode, persisted>>

\* a catch block that also drops the selection
EncodeFailsDropsSelection ==
    /\ phase = "running" /\ ~persistPending
    /\ inflight # << >>
    /\ error' = "encodeFailed"
    /\ isLoading' = FALSE
    /\ inflight' = Tail(inflight)
    /\ currentQr' = << >>
    /\ closureHistory' = Arr(<< >>)
    /\ lastOp' = "encodeFail"
    /\ UNCHANGED <<urlInput, history, storage, phase, persistPending, now,
                   duringEncode, generated, persisted>>

\* a failure path without the finally block: the loading flag stays set
EncodeFailsKeepsLoading ==
    /\ phase = "running" /\ ~persistPending
    /\ inflight # << >>
    /\ error' = "encodeFailed"
    /\ inflight' = Tail(inflight)
    /\ closureHistory' = Arr(<< >>)
    /\ lastOp' = "encodeFail"
    /\ UNCHANGED <<urlInput, currentQr, history, isLoading, storage, phase,
                   persistPending, now, duringEncode, generated, persisted>>

\* handleGenerateQrCode after its await, the encoder having thrown
EncodeFails ==
    /\ Idle
    /\ inflight # << >>
    /\ error' = "encodeFailed"
    /\ isLoading' = FALSE
    /\ inflight' = Tail(inflight)
    /\ closureHistory' = Arr(<< >>)
    /\ lastOp' = "encodeFail"
    /\ UNCHANGED <<urlInput, currentQr, history, storage, phase, persistPending, now,
                   duringEncode, generated, persisted>>

\* a select that also moves the entry to the head of the history
SelectMovesToFront(i) ==
    /\ phase = "running" /\ ~persistPending
    /\ i \in 1..Len(history.items)
    /\ currentQr' = <<history.items[i]>>
    /\ history' = Arr(<<history.items[i]>> \o SubSeq(history.items, 1, i - 1)
                       \o SubSeq(history.items, i + 1, Len(history.items)))
    /\ duringEncode' = IF isLoading THEN duringEncode \cup {"select"} ELSE {}
    /\ lastOp' = "select"
    /\ UNCHANGED <<urlInput, isLoading, error, inflight, storage, phase,
                   persistPending, now, generated, persisted, closureHistory>>

\* handleSelectHistoryItem(item), item being the i-th rendered entry
Select(i) ==
    /\ Idle
    /\ i \in 1..Len(history.items)
    /\ currentQr' = <<history.items[i]>>
    /\ duringEncode' = IF isLoading THEN duringEncode \cup {"select"} ELSE {}
    /\ lastOp' = "select"
    /\ UNCHANGED <<urlInput, history, isLoading, error, inflight, storage, phase,
                   persistPending, now, generated, persisted, closureHistory>>

\* a clear that forgets setCurrentQr(null)
ClearKeepsSelection(accepted) ==
    /\ phase = "running" /\ ~persistPending
    /\ Len(history.items) > 0
    /\ IF accepted
       THEN /\ history' = Arr(<< >>)
            /\ persistPending' = TRUE
            /\ lastOp' = "clearAccepted"
       ELSE /\ lastOp' = "clearDeclined"
            /\ UNCHANGED <<history, persistPending>>
    /\ duringEncode' =
         IF isLoading /\ accepted THEN duringEncode \cup {"clear"}
         ELSE IF isLoading THEN duringEncode ELSE {}
    /\ generated' = IF accepted THEN {} ELSE generated
    /\ UNCHANGED <<urlInput, currentQr, isLoading, error, inflight, storage, phase, now,
                   persisted, closureHistory>>

\* handleClearHistory, the button being rendered only for a non-empty history;
\* accepted is the answer of window.confirm
Clear(accepted) ==
    /\ Idle
    /\ Len(history.items) > 0
    /\ IF accepted
       THEN /\ history' = Arr(<< >>)
            /\ currentQr' = << >>
            /\ persistPending' = TRUE
            /\ lastOp' = "clearAccepted"
       ELSE /\ lastOp' = "clearDeclined"
            /\ UNCHANGED <<history, currentQr, persistPending>>
    /\ duringEncode' =
         IF isLoading /\ accepted THEN duringEncode \cup {"clear"}
         ELSE IF isLoading THEN duringEncode ELSE {}
    /\ generated' = IF accepted THEN {} ELSE generated
    /\ UNCHANGED <<urlInput, isLoading, error, inflight, storage, phase, now,
                   persisted, closureHistory>>

\* the page is loaded again: the component state is rebuilt, the storage stays
Reload ==
    /\ phase \in {"running", "crashed"}
    /\ ~persistPending
    /\ urlInput' = EmptyString
    /\ currentQr' = << >>
    /\ history' = Arr(<< >>)
    /\ isLoading' = FALSE
    /\ error' = "none"
    /\ inflight' = << >>
    /\ phase' = "mount"
    /\ duringEncode' = {}
    /\ closureHistory' = Arr(<< >>)
    /\ lastOp' = "render"
    /\ UNCHANGED <<storage, persistPending, now, generated, persisted>>

(***************************************************************************)
(* Specifications                                                          *)
(***************************************************************************)

Next ==
    \/ LoadEffect
    \/ MountPersist
    \/ Persist
    \/ \E value \in Inputs : SetUrlInput(value)
    \/ Generate
    \/ \E t1 \in now..ClockEnd : \E t2 \in t1..ClockEnd : EncodeSucceeds(t1, t2)
    \/ EncodeFails
    \/ \E i \in 1..Len(history.items) : Select(i)
    \/ \E accepted \in BOOLEAN : Clear(accepted)
    \/ Reload

Spec == Init /\ [][Next]_vars

\* the cold start: nothing stored, any number of distinct URLs typed one after
\* the other within one reading of the clock
InitCold ==
    /\ InitialState
    /\ storage = Absent
    /\ persisted = NothingWritten

NextCold ==
    \/ LoadEffect
    \/ MountPersist
    \/ Persist
    \/ \E value \in ColdInputs : SetUrlInput(value)
    \/ Generate
    \/ EncodeSucceeds(now, now)
    \/ EncodeFails
    \/ \E i \in SelectPositions(Len(history.items)) : Select(i)
    \/ \E accepted \in BOOLEAN : Clear(accepted)
    \/ Reload

SpecCold == InitCold /\ [][NextCold]_vars

\* the history update on any array the load effect accepts: the key holds an
\* array the program did not write, and the user generates
InitStored ==
    /\ InitialState
    /\ storage \in TamperedInputs
    /\ persisted = NothingWritten

NextStored ==
    \/ LoadEffect
    \/ MountPersist
    \/ Persist
    \/ \E value \in {UrlOld, UrlNew} : SetUrlInput(value)
    \/ Generate
    \/ \E t1 \in now..ClockEnd : \E t2 \in t1..ClockEnd : EncodeSucceeds(t1, t2)
    \/ EncodeFails

SpecStored == InitStored /\ [][NextStored]_vars

\* one mount of the component, from its first render on, without a restart of
\* the page: React runs every scheduled effect, and the encoder is assumed to
\* return or throw in the end
NextLive ==
    \/ LoadEffect
    \/ MountPersist
    \/ Persist
    \/ \E value \in Inputs : SetUrlInput(value)
    \/ Generate
    \/ \E t1 \in now..ClockEnd : \E t2 \in t1..ClockEnd : EncodeSucceeds(t1, t2)
    \/ EncodeFails
    \/ \E i \in SelectPositions(Len(history.items)) : Select(i)
    \/ \E accepted \in BOOLEAN : Clear(accepted)

EncoderSettles ==
    \/ \E t1 \in now..ClockEnd : \E t2 \in t1..ClockEnd : EncodeSucceeds(t1, t2)
    \/ EncodeFails

Fairness ==
    /\ WF_vars(LoadEffect)
    /\ WF_vars(MountPersist)
    /\ WF_vars(Persist)
    /\ WF_vars(EncoderSettles)

SpecLive == Init /\ [][NextLive]_vars /\ Fairness

(***************************************************************************)
(* Claims                                                                  *)
(***************************************************************************)

Items == history.items
Urls(items) == {items[i].url : i \in 1..Len(items)}

\* C1: started with nothing stored, the history never holds more than 20
\* entries, whatever generate, select, clear and reload events occur; and once
\* 21 or more pairwise distinct URLs have been generated with no clear in
\* between, it holds exactly 20.
C1_HistoryBound ==
    /\ Len(Items) <= 20
    /\ (phase = "running" /\ Cardinality(generated) >= 21) => Len(Items) = 20

\* the 21st distinct URL has just been inserted, and the first one is gone
C1_Witness ==
    /\ lastOp = "encodeOk"
    /\ Cardinality(generated) = 21
    /\ Len(Items) = 20
    /\ Items[1].url = HostUrl(21)
    /\ HostUrl(1) \notin Urls(Items)

NoDuplicateUrls ==
    \A i, j \in 1..Len(Items) : Items[i].url = Items[j].url => i = j

\* C2: no two entries of the history have the same url; and the step that
\* completes an encode of url leaves exactly one entry with that url, at the
\* head, and that entry is the one just created (the selection, created no
\* earlier than the last clock reading, carrying the payload of this encode).
C2_OneEntryPerUrl ==
    /\ []NoDuplicateUrls
    /\ [][lastOp' = "encodeOk" =>
            LET url == Head(inflight)
                new == history'.items
            IN /\ {i \in 1..Len(new) : new[i].url = url} = {1}
               /\ <<new[1]>> = currentQr'
               /\ new[1].dataUrl = toDataURL(url)
               /\ new[1].id.iso >= now
               /\ new[1].createdAt >= now]_vars

\* the oldest stored URL was generated again: its entry moved from the tail to
\* the head and carries a timestamp of this session
C2_Witness ==
    /\ lastOp = "encodeOk"
    /\ Len(Items) = 20
    /\ Items[1].url = UrlOld
    /\ Items[1].createdAt >= SessionStart
    /\ Items[20].url = HostUrl(2)

\* the insert as specified: remove every entry with the url of e, prepend e,
\* keep the first 20
SpecInsert(prev, e) ==
    LET rest == SelectSeq(prev, LAMBDA x : x.url # e.url)
        all == <<e>> \o rest
    IN SubSeq(all, 1, IF Len(all) < 20 THEN Len(all) ELSE 20)

\* s is t with some of its elements left out, the others in the same order
RECURSIVE IsSubsequence(_, _)
IsSubsequence(s, t) ==
    IF s = << >> THEN TRUE
    ELSE IF t = << >> THEN FALSE
    ELSE IF Head(s) = Head(t) THEN IsSubsequence(Tail(s), Tail(t))
    ELSE IsSubsequence(s, Tail(t))

\* C3: on encode success, for whatever array the history held, the new history
\* is the specified insert of the new entry; the old entries that survive keep
\* their relative order; the entries dropped by the bound are the trailing ones,
\* and from a history within the bound at most one is dropped: the last.
C3_InsertAsSpecified ==
    [][lastOp' = "encodeOk" =>
        LET prev == history.items
            new == history'.items
            e == currentQr'[1]
            kept == SelectSeq(prev, LAMBDA x : x.url # e.url)
        IN /\ new = SpecInsert(prev, e)
           /\ IsSubsequence(Tail(new), prev)
           /\ Tail(new) = SubSeq(kept, 1, Len(new) - 1)
           /\ (Len(prev) <= 20 /\ Len(kept) > Len(new) - 1) =>
                 /\ Len(kept) = Len(new)
                 /\ kept[Len(kept)] = prev[Len(prev)]]_vars

\* an insert into an array longer than the bound that held the url twice
C3_Witness ==
    /\ lastOp = "encodeOk"
    /\ storage.kind = "array"
    /\ Len(storage.items) = 22
    /\ storage.items[1].url.str = UrlNew
    /\ storage.items[20].url.str = UrlOld
    /\ Items[1].url = UrlOld
    /\ Len(Items) = 20

\* C4: the step that completes the encode started by generate(S) leaves an
\* entry selected whose url is S, the text typed and validated; that entry is
\* the first of the history; select and clear events during the encode do not
\* change this.
C4_SelectionIsNewEntry ==
    [][lastOp' = "encodeOk" =>
        LET S == urlInput IN
        /\ UrlParses(S)
        /\ currentQr' # << >>
        /\ currentQr'[1].url = S
        /\ history'.items # << >>
        /\ history'.items[1].url = S
        /\ history'.items[1] = currentQr'[1]]_vars

\* an encode of the padded URL completed after a select and a confirmed clear
\* had happened while it was pending
C4_Witness ==
    /\ lastOp = "encodeOk"
    /\ duringEncode = {"select", "clear"}
    /\ currentQr # << >>
    /\ currentQr[1].url = UrlNew
    /\ Items = currentQr

\* C5: a generate on a text that is empty after trimming or that fails URL
\* parsing sets the validation error and aborts: no encode is started, loading
\* stays false, and history, selection, input text and storage are unchanged.
C5_InvalidInputAborts ==
    [][(lastOp' \in {"generateRejected", "generateStarted"}
         /\ (Trim(urlInput) = EmptyString \/ ~UrlParses(urlInput))) =>
        /\ lastOp' = "generateRejected"
        /\ error' = "invalidUrl"
        /\ inflight' = << >>
        /\ isLoading' = FALSE
        /\ history' = history
        /\ currentQr' = currentQr
        /\ urlInput' = urlInput
        /\ storage' = storage
        /\ persistPending' = FALSE]_vars

\* words that are no URL were submitted with a full history on display
C5_Witness ==
    /\ lastOp = "generateRejected"
    /\ urlInput = <<Word, Sp, Word>>
    /\ error = "invalidUrl"
    /\ Len(Items) = 20
    /\ currentQr # << >>

\* C6: the step in which the encoder fails sets the error, resets loading,
\* creates no entry and leaves history, selection and storage as they were,
\* with no persist effect scheduled.
C6_EncodeFailureLeavesState ==
    [][lastOp' = "encodeFail" =>
        /\ error' = "encodeFailed"
        /\ isLoading' = FALSE
        /\ inflight' = << >>
        /\ history' = history
        /\ currentQr' = currentQr
        /\ storage' = storage
        /\ persistPending' = FALSE]_vars

\* the encoder failed while an entry of a full history was selected
C6_Witness ==
    /\ lastOp = "encodeFail"
    /\ error = "encodeFailed"
    /\ ~isLoading
    /\ Len(Items) = 20
    /\ currentQr = <<Items[2]>>

\* C7: at most one encode is in flight, loading is true exactly while one is,
\* and no generate starts a second one.
C7_OneEncodeInFlight ==
    /\ Len(inflight) <= 1
    /\ isLoading <=> (inflight # << >>)

\* an encode is pending and the input still holds the text, so that only the
\* loading flag keeps the button disabled
C7_Witness ==
    /\ isLoading
    /\ inflight = <<UrlNew>>
    /\ urlInput = UrlNew
    /\ lastOp = "select"

\* C8: a confirmed clear empties the history and the selection and schedules
\* the persist effect, which runs next and, unless setItem throws, stores the
\* empty array; a declined clear changes neither history, selection nor storage.
C8_Clear ==
    [][/\ lastOp' = "clearAccepted" =>
            /\ history' = [kind |-> "array", items |-> << >>]
            /\ currentQr' = << >>
            /\ persistPending'
       /\ lastOp = "clearAccepted" =>
            /\ lastOp' = "persist"
            /\ history' = history
            /\ storage.kind # "inaccessible" =>
                  storage' = [kind |-> "array", items |-> << >>]
       /\ lastOp' = "clearDeclined" =>
            /\ history' = history
            /\ currentQr' = currentQr
            /\ storage' = storage
            /\ persistPending' = FALSE]_vars

\* a full history has just been cleared; the storage still holds its 20 entries
C8_Witness ==
    /\ lastOp = "clearAccepted"
    /\ Items = << >>
    /\ currentQr = << >>
    /\ storage.kind = "array"
    /\ Len(storage.items) = 20

\* C9: every change of the history schedules the persist effect (a reload
\* runs the effects of the mount), and whenever the component is running, no
\* persist effect is pending and setItem does not throw, the key holds the
\* serialization of the history.
C9_StorageFollowsHistory ==
    /\ [](phase = "running" /\ ~persistPending /\ storage.kind # "inaccessible"
            => storage = Stringify(history))
    /\ [][history' # history => (persistPending' \/ phase' = "mount")]_vars

\* an insert into a full history has been written
C9_Witness ==
    /\ lastOp = "persist"
    /\ phase = "running"
    /\ storage.kind = "array"
    /\ Len(storage.items) = 20
    /\ storage.items[1].url.str = UrlNew
    /\ Items[1].url = UrlNew

\* C10: whatever the key holds at startup, the component gets through its
\* mount with an array as its history.
C10_StartupNeverFails ==
    /\ phase # "crashed"
    /\ history.kind = "array"

\* C11: the selection is null or an entry of the history, in every state
\* (each handler being one step, the entry an encode creates is selected and
\* inserted in the same step).
C11_SelectionInHistory ==
    \/ currentQr = << >>
    \/ /\ history.kind = "array"
       /\ \E i \in 1..Len(Items) : Items[i] = currentQr[1]

\* an entry was selected while an encode was pending, and the insert that
\* followed pushed the oldest entry out of a full history
C11_Witness ==
    /\ lastOp = "encodeOk"
    /\ duringEncode = {"select"}
    /\ Len(Items) = 20
    /\ Items[1].url = UrlNew
    /\ UrlOld \notin Urls(Items)
    /\ currentQr = <<Items[1]>>

\* C12: a select makes an entry of the history the selection and changes
\* nothing else: not the history, the storage, the loading and error flags,
\* the pending encode or the input; it schedules no write.
C12_SelectFrame ==
    [][lastOp' = "select" =>
        /\ \E i \in 1..Len(history.items) : currentQr' = <<history.items[i]>>
        /\ history' = history
        /\ storage' = storage
        /\ isLoading' = isLoading
        /\ error' = error
        /\ inflight' = inflight
        /\ urlInput' = urlInput
        /\ persistPending' = FALSE]_vars

\* the last entry of a full history was selected while an encode was pending
C12_Witness ==
    /\ lastOp = "select"
    /\ isLoading
    /\ inflight = <<UrlOld>>
    /\ Len(Items) = 20
    /\ currentQr = <<Items[20]>>
    /\ storage = Stringify(history)

Range(items) == {items[i] : i \in 1..Len(items)}

\* the entries a step of the running component adds to and removes from the
\* history, and the entry an encode has just created
Added == Range(history'.items) \ Range(history.items)
Removed == Range(history.items) \ Range(history'.items)
Running == phase = "running" /\ phase' = "running"

\* r is dropped by the bound: it was the last entry, its url is not the inserted
\* one, and the history is full afterwards
Truncated(r) ==
    /\ lastOp' = "encodeOk"
    /\ r = history.items[Len(history.items)]
    /\ r.url # currentQr'[1].url
    /\ Len(history'.items) = 20

\* only a successful encode adds an entry, and it adds the one it created;
\* the entries that stay are the old ones, unchanged and in their order
AddedOnlyByEncode ==
    /\ Added # {} => lastOp' = "encodeOk" /\ Added = {currentQr'[1]}
    /\ lastOp' = "encodeOk" => IsSubsequence(Tail(history'.items), history.items)
    /\ lastOp' \notin {"encodeOk", "clearAccepted"} => history' = history

\* C13 as stated: while the component runs, entries are added only by a
\* successful encode, leave only by a confirmed clear or by truncation at the
\* 20-entry boundary, and are unchanged while they stay.
C13_AsStated ==
    [][Running =>
        /\ AddedOnlyByEncode
        /\ \A r \in Removed : lastOp' = "clearAccepted" \/ Truncated(r)]_vars

\* C13: while the component runs, entries are added only by a successful
\* encode, leave only by a confirmed clear, by truncation at the 20-entry
\* boundary or by the insert of a newer entry with the same url, and are
\* unchanged while they stay.
C13_Lifecycle ==
    [][Running =>
        /\ AddedOnlyByEncode
        /\ \A r \in Removed :
              \/ lastOp' = "clearAccepted"
              \/ Truncated(r)
              \/ lastOp' = "encodeOk" /\ r.url = currentQr'[1].url]_vars

\* the only stored entry was replaced by a newer entry of the same url: the
\* value last written still holds the older one
C13_Witness ==
    /\ lastOp = "encodeOk"
    /\ Len(Items) = 1
    /\ persisted.kind = "array"
    /\ Len(persisted.items) = 1
    /\ persisted.items[1].url = Items[1].url
    /\ persisted.items[1].createdAt < Items[1].createdAt

\* C14: a startup load that follows a successful write of the history H yields
\* the history H, entry for entry and in order, and selects H[0] when H is not
\* empty and nothing when it is.
C14_ReloadRoundTrip ==
    [][lastOp' = "load" /\ persisted.kind = "array" =>
        /\ history' = persisted
        /\ currentQr' = IF persisted.items = << >>
                        THEN << >>
                        ELSE <<persisted.items[1]>>]_vars

\* a full history headed by an entry of this session, read back after a reload
C14_Witness ==
    /\ lastOp = "load"
    /\ history = persisted
    /\ Len(Items) = 20
    /\ Items[1].url = UrlNew
    /\ Items[1].createdAt > Items[2].createdAt
    /\ currentQr = <<Items[1]>>

\* C15: in every reachable state the history is ordered most recently created
\* first: an entry never has a smaller createdAt than an entry after it (the
\* clock of the model never goes backwards).
C15_NewestFirst ==
    history.kind = "array" =>
        \A i, j \in 1..Len(Items) : i < j => Items[i].createdAt >= Items[j].createdAt

\* two entries of this session made at different readings of the clock, on top
\* of stored entries
C15_Witness ==
    /\ lastOp = "encodeOk"
    /\ Len(Items) >= 3
    /\ Items[1].createdAt > Items[2].createdAt
    /\ Items[2].createdAt >= SessionStart
    /\ Items[3].createdAt < SessionStart

\* the state an encode leaves when it settles
Resolved ==
    /\ ~isLoading
    /\ \/ lastOp = "encodeOk" /\ currentQr = <<Items[1]>>
       \/ lastOp = "encodeFail" /\ error = "encodeFailed"

\* the step in which the loading flag falls is the continuation of the encode
Settles ==
    \/ /\ lastOp' = "encodeOk"
       /\ currentQr' = <<history'.items[1]>>
       /\ history'.items[1].url = Head(inflight)
    \/ /\ lastOp' = "encodeFail"
       /\ error' = "encodeFailed"

\* C16 as stated: every state with loading set is followed by a state with
\* loading clear in which the entry is inserted and selected or the error is
\* set, and in which the generate action is enabled again; nothing but the
\* continuation of the encode clears loading.
C16_AsStated ==
    /\ isLoading ~> Resolved
    /\ [][isLoading /\ ~isLoading' => Settles /\ GenerateEnabled']_vars

\* C16: every state with loading set is followed by a state with loading clear
\* in which the entry is inserted and selected or the error is set; nothing but
\* the continuation of the encode clears loading; after a failure the generate
\* action is enabled again, after a success the input is empty and the action
\* stays disabled until the user types.
C16_EncodeResolves ==
    /\ isLoading ~> Resolved
    /\ [][isLoading /\ ~isLoading' =>
            /\ Settles
            /\ lastOp' = "encodeFail" => GenerateEnabled'
            /\ lastOp' = "encodeOk" => urlInput' = EmptyString /\ ~GenerateEnabled']_vars

\* an encode that settled with an entry after the history was cleared and an
\* entry selected while it was pending: the input is empty, the button disabled
C16_Witness ==
    /\ Resolved
    /\ lastOp = "encodeOk"
    /\ duringEncode # {}
    /\ urlInput = EmptyString
    /\ ~GenerateEnabled
    /\ persistPending

\* C17: when the history was cleared while the encode was pending, the
\* successful completion leaves a history of exactly the new entry, and the
\* write that follows stores exactly that entry: the entries the history held
\* when generate was triggered are neither in memory nor in the storage.
C17_InsertAtCompletion ==
    /\ [][lastOp' = "encodeOk" /\ "clear" \in duringEncode =>
            /\ Len(currentQr') = 1
            /\ currentQr'[1].url = Head(inflight)
            /\ history' = Arr(currentQr')]_vars
    /\ [][/\ lastOp = "encodeOk" /\ "clear" \in duringEncode
          /\ lastOp' = "persist" /\ ~StorageThrows
          => /\ history' = Arr(currentQr)
             /\ storage' = Stringify(Arr(currentQr))]_vars

\* the history was cleared while the url of a stored entry was being encoded:
\* the new entry is alone in memory and in the storage
C17_Witness ==
    /\ lastOp = "persist"
    /\ ~isLoading
    /\ "clear" \in duringEncode
    /\ Len(Items) = 1
    /\ Items[1].url = UrlOld
    /\ Items[1].createdAt >= SessionStart
    /\ storage = Stringify(history)
    /\ Len(storage.items) = 1

\* C18: when the key holds a non-empty history H at mount, the stored value is
\* the serialization of H in every state of the startup, after the load effect
\* and after the persist effect of the first render (history is H from the
\* load on).
C18_StartupKeepsStore ==
    /\ lastOp \in {"load", "mountPersist"}
    /\ history.kind = "array"
    /\ Len(Items) > 0
    => storage = Stringify(history)

====
